---- MODULE Spec2Model ----
(***************************************************************************)
(* qapytest: the execution log (steps, soft assertions, attachments) that  *)
(* a test records, and the reclassification of the call-phase report in    *)
(* pytest_runtest_makereport.                                              *)
(*                                                                         *)
(* Python objects are modelled by reference.  Every LogEntry dict ever     *)
(* added to a log lives in `heap`; its identity is its index.  A list of   *)
(* entries is a sequence of indices.  A container reference is 0 for the   *)
(* root_list of the running test and n > 0 for heap[n].children.           *)
(***************************************************************************)
EXTENDS Integers, Sequences, FiniteSets, TLC

VARIABLES
    heap,                        \* all LogEntry dicts, by identity
    root_list,                   \* the list made by pytest_runtest_setup
    stack,                       \* the list object put in CURRENT_LOG_CONTAINER_STACK
    CURRENT_EXECUTION_LOG,       \* "None" or "root_list"
    CURRENT_LOG_CONTAINER_STACK, \* "None" or "stack"
    tokens,                      \* item._execution_log_token / item._log_stack_token exist
    pc,                          \* phase of the runner's protocol for the current item
    scopes,                      \* the open `with step(...)` blocks, innermost last
    exc,                         \* the exception propagating in user code, or "none"
    reports,                     \* the TestReport of each phase of the current item
    last,                        \* the most recent operation and what it returned
    within,                      \* history: for each entry, the with-block it was recorded in
    finished,                    \* history: the trees of the items that ended, as the reporter keeps them
    cfg_ATTACH_LIMIT_BYTES,      \* cfg.ATTACH_LIMIT_BYTES: <<>> for None, <<n>> for the int n
    contexts,                    \* items run side by side: the two context variables in each context
    executions                   \* items run side by side: each item's lists, tokens, phase, open blocks

\* the state of one item after the other
sequential == <<root_list, stack, CURRENT_EXECUTION_LOG, CURRENT_LOG_CONTAINER_STACK,
                tokens, pc, scopes, exc, reports, last, within, finished,
                cfg_ATTACH_LIMIT_BYTES>>

\* the state of items run side by side (they share heap, the memory of the process)
parallel == <<contexts, executions>>

vars == <<heap, sequential, parallel>>

---------------------------------------------------------------------------
(* Bounds of the model *)

MaxNodes == 4            \* LogEntry dicts one item records
MaxSetupEntries == 1     \* of them, those the fixtures record before the call
MaxInactiveDepth == 1    \* nested no-op scopes (no active context)
ATTACH_LIMIT_BYTES == 2  \* --max-attachment-bytes of the run
MaxAttachments == 2      \* entries of an item that attaches data of every kind
MaxParallelNodes == 4    \* LogEntry dicts that two items run side by side record together
MaxKeptItems == 2        \* finished items whose trees the reporter still holds

---------------------------------------------------------------------------
(* Inputs *)

StepMessages == {"A"}
AssertLabels == {"x"}
AttachLabels == {"att"}
DEFAULT_DETAILS == "condition evaluated to false"

\* condition: any Python value; bool(condition) is its truth value
Conditions == {[t |-> "bool", v |-> 1], [t |-> "bool", v |-> 0],
               [t |-> "int", v |-> 0], [t |-> "int", v |-> 7]}

\* details: str | list[str] | None
DetailsArgs == {"None", "why"}

\* bool(condition)
Truthy(c) == c.v # 0

\* the soft assertions the tests make: failing ones with and without details,
\* passing ones without
AssertInputs == {a \in [condition : Conditions, details : DetailsArgs] :
                    Truthy(a.condition) => a.details = "None"}

\* data handed to attach: what it is, and the size of its text / bytes
AttachKinds == {"dict", "dict_typeerror", "dict_circular", "bytes", "str",
                "imgpath", "imgpath_unreadable", "other", "other_repr_raises"}
AttachSizes == {1, ATTACH_LIMIT_BYTES, ATTACH_LIMIT_BYTES + 1}
AttachData == [kind : AttachKinds, size : AttachSizes]
Mimes == {"None", "image/png"}
\* every attachment there is to make
AllAttachInputs == [data : AttachData, mime : Mimes]
\* the attachments the tests of Spec make
AttachInputs == {[data |-> [kind |-> "str", size |-> 1], mime |-> "None"]}

\* the messages and labels of an item whose summary is read line by line
SummaryMessages == {"A", "B"}
SummaryLabels == {"x", "y"}

\* how the item is marked for the runner
XfailMarks == {"nomark", "xfail_reason", "xfail_noreason", "xfail_strict"}

\* items run side by side
Executions == {1, 2}

NoReport == [when |-> "none"]
NoLast == [op |-> "none"]

---------------------------------------------------------------------------
(* Pure helpers *)

Top(s) == s[Len(s)]
Pop(s) == SubSeq(s, 1, Len(s) - 1)

\* the entries of the container a reference names
ContainerItems(h, r, c) == IF c = 0 THEN r ELSE h[c].children

\* a walk that trusts the flags of the steps and does not look below them
Mut_has_failures_in_log_Flat(h, log) ==
    \E i \in 1..Len(log) : h[log[i]].type \in {"assert", "step"} /\ ~h[log[i]].passed

RECURSIVE has_failures_in_log(_, _)
has_failures_in_log(h, log) ==
    \E i \in 1..Len(log) :
        LET e == h[log[i]] IN
            \/ e.type = "assert" /\ ~e.passed
            \/ e.type = "step" /\ (~e.passed \/ has_failures_in_log(h, e.children))

RECURSIVE generate_terminal_summary(_, _, _)
generate_terminal_summary(h, log, depth) ==
    IF log = <<>> THEN <<>>
    ELSE LET e == h[Head(log)]
             own == IF e.type = "assert" /\ ~e.passed
                        THEN <<[indent |-> depth, of |-> "assert", text |-> e.label,
                                details |-> IF "details" \in DOMAIN e THEN e.details ELSE "None"]>>
                    ELSE IF e.type = "step" /\ ~e.passed
                        THEN <<[indent |-> depth, of |-> "step", text |-> e.message,
                                details |-> "None"]>>
                    ELSE <<>>
             below == IF e.type = "step"
                          THEN generate_terminal_summary(h, e.children, depth + 1)
                          ELSE <<>>
         IN own \o below \o generate_terminal_summary(h, Tail(log), depth)

\* an add_log_entry that puts the entry at the front of root_list as well as at
\* the end of the container on top of the stack
Mut_add_log_entry_AlsoRoot(h, r, stk, ctx, entry) ==
    IF ctx = "None" \/ stk = <<>>
        THEN [heap |-> h, root_list |-> r, id |-> 0]
    ELSE LET id == Len(h) + 1
             c == Top(stk)
         IN IF c = 0
                THEN [heap |-> Append(h, entry), root_list |-> <<id>> \o r, id |-> id]
                ELSE [heap |-> Append([h EXCEPT ![c].children = Append(@, id)], entry),
                      root_list |-> <<id>> \o r, id |-> id]

\* utils.add_log_entry(entry): append to the container on top of the active stack;
\* nothing without an active, non-empty stack.  Yields the new heap and root_list.
add_log_entry(h, r, stk, ctx, entry) ==
    IF ctx = "None" \/ stk = <<>>
        THEN [heap |-> h, root_list |-> r, id |-> 0]
    ELSE LET id == Len(h) + 1
             c == Top(stk)
         IN IF c = 0
                THEN [heap |-> Append(h, entry), root_list |-> Append(r, id), id |-> id]
                ELSE [heap |-> Append([h EXCEPT ![c].children = Append(@, id)], entry),
                      root_list |-> r, id |-> id]

\* utils.maybe_truncate_text / maybe_truncate_bytes: cut to the byte budget
\* cfg.ATTACH_LIMIT_BYTES; without a budget there is nothing to cut to
maybe_truncate(size) ==
    IF cfg_ATTACH_LIMIT_BYTES = <<>>
        THEN [size |-> size, truncated |-> FALSE]
    ELSE IF size > cfg_ATTACH_LIMIT_BYTES[1]
        THEN [size |-> cfg_ATTACH_LIMIT_BYTES[1], truncated |-> TRUE]
        ELSE [size |-> size, truncated |-> FALSE]

---------------------------------------------------------------------------
(* The start of the run: pytest_addoption and pytest_configure *)

\* an optional int: <<>> for None or for an option left out, <<n>> for n
\* the command line without --max-attachment-bytes
NotGiven == <<>>

\* parser.addoption("--max-attachment-bytes", type=int, default=None)
max_attachment_bytes_default == <<>>

\* config.getoption("max_attachment_bytes") for what the command line gave
getoption_max_attachment_bytes(given) ==
    IF given = NotGiven THEN max_attachment_bytes_default ELSE given

\* pytest_configure, line 87: the value cfg.ATTACH_LIMIT_BYTES holds for the run,
\* whatever it held before
pytest_configure(given) == getoption_max_attachment_bytes(given)

---------------------------------------------------------------------------
\* no item has run yet
NothingRun ==
    /\ heap = <<>>
    /\ root_list = <<>>
    /\ stack = <<>>
    /\ CURRENT_EXECUTION_LOG = "None"
    /\ CURRENT_LOG_CONTAINER_STACK = "None"
    /\ tokens = FALSE
    /\ pc = "idle"
    /\ scopes = <<>>
    /\ exc = "none"
    /\ reports = [setup |-> NoReport, call |-> NoReport, teardown |-> NoReport]
    /\ last = NoLast
    /\ within = <<>>
    /\ finished = <<>>
    /\ contexts = [c \in Executions |-> [log |-> 0, stack |-> 0]]
    /\ executions = [e \in Executions |->
                        [pc |-> "idle", root_list |-> <<>>, stack |-> <<>>,
                         tokens |-> [log |-> 0, stack |-> 0], scopes |-> <<>>,
                         report |-> <<>>, recorded |-> {}]]

\* a run started with --max-attachment-bytes=ATTACH_LIMIT_BYTES
Init ==
    /\ NothingRun
    /\ cfg_ATTACH_LIMIT_BYTES = pytest_configure(<<ATTACH_LIMIT_BYTES>>)

\* a run started without the option
InitNotGiven ==
    /\ NothingRun
    /\ cfg_ATTACH_LIMIT_BYTES = pytest_configure(NotGiven)

---------------------------------------------------------------------------
(* Recording API: qapytest/_external.py *)

\* user code records in these phases: outside any item (no context), in the
\* fixtures' setup, in the test body, in the fixtures' finalizers (context reset)
UserPhases == {"idle", "setup", "call", "finalizers"}

\* the innermost open with-block (0: none, or a no-op scope)
Innermost == IF scopes = <<>> THEN 0 ELSE Top(scopes).node

\* history of an add_log_entry call that stored entry id (0: stored nothing)
Noted(id) == IF id = 0 THEN within ELSE Append(within, Innermost)

\* room for one more entry
MayAdd == Len(heap) < (IF pc = "setup" THEN MaxSetupEntries ELSE MaxNodes)

\* a step that takes every context for an active one
Mut_not_stack_Never(ctx, stk) == FALSE

\* `not stack`, for the value of CURRENT_LOG_CONTAINER_STACK.get(): None or an empty list
not_stack(ctx, stk) == ctx = "None" \/ stk = <<>>

\* the context manager's setup half (up to the yield)
step_enter(message) ==
    /\ UNCHANGED <<parallel, finished, cfg_ATTACH_LIMIT_BYTES>>
    /\ pc \in UserPhases /\ exc = "none"
    /\ IF not_stack(CURRENT_LOG_CONTAINER_STACK, stack)
          THEN /\ Len(SelectSeq(scopes, LAMBDA s : s.node = 0)) < MaxInactiveDepth
               /\ scopes' = Append(scopes, [node |-> 0, phase |-> pc])
               /\ last' = [op |-> "step_enter", ret |-> "None", entry |-> 0]
               /\ UNCHANGED <<heap, root_list, stack, within>>
          ELSE /\ MayAdd
               /\ LET step_node == [type |-> "step", message |-> message,
                                    passed |-> TRUE, children |-> <<>>]
                      added == add_log_entry(heap, root_list, stack,
                                             CURRENT_LOG_CONTAINER_STACK, step_node)
                  IN /\ heap' = added.heap
                     /\ root_list' = added.root_list
                     /\ stack' = Append(stack, added.id)
                     /\ scopes' = Append(scopes, [node |-> added.id, phase |-> pc])
                     /\ last' = [op |-> "step_enter", ret |-> "None", entry |-> added.id]
                     /\ within' = Noted(added.id)
    /\ UNCHANGED <<CURRENT_EXECUTION_LOG, CURRENT_LOG_CONTAINER_STACK, tokens, pc,
                   exc, reports>>

\* a step that forgets to pop its container
Mut_StackAfterExit_NoPop(stk) == stk

\* a step that pops the oldest container, not the newest
Mut_StackAfterExit_PopFirst(stk) == Tail(stk)

\* a step that empties the stack when it closes
Mut_StackAfterExit_Clear(stk) == <<>>

\* stack.pop()
StackAfterExit(stk) == Pop(stk)

\* a step that keeps the flag it was created with
Mut_StepPassed_Stale(h, node) == h[node].passed

\* a step that counts the exception passing through it as a failure
Mut_StepPassed_ExceptionFails(h, node) ==
    exc = "none" /\ ~has_failures_in_log(h, h[node].children)

\* step_node["passed"] = not has_failures_in_log(step_node.get("children", []))
StepPassed(h, node) == ~has_failures_in_log(h, h[node].children)

\* the context manager's finally half; runs on normal exit and while an
\* exception unwinds.  A with-block closes only after the blocks opened inside it.
step_exit ==
    /\ UNCHANGED <<parallel, finished, cfg_ATTACH_LIMIT_BYTES>>
    /\ pc \in UserPhases
    /\ scopes # <<>>
    /\ LET s == Top(scopes) IN
        /\ IF s.phase = pc THEN TRUE ELSE s.phase = "setup" /\ pc = "finalizers"
        /\ scopes' = Pop(scopes)
        /\ last' = [op |-> "step_exit", ret |-> "None", entry |-> s.node]
        /\ IF s.node = 0
              THEN UNCHANGED <<heap, stack, exc>>
           ELSE IF stack = <<>>
              THEN \* list.pop() of an empty list raises IndexError
                   /\ exc' = "error"
                   /\ UNCHANGED <<heap, stack>>
           ELSE /\ stack' = StackAfterExit(stack)
                /\ heap' = [heap EXCEPT ![s.node].passed = StepPassed(heap, s.node)]
                /\ UNCHANGED exc
    /\ UNCHANGED <<root_list, CURRENT_EXECUTION_LOG, CURRENT_LOG_CONTAINER_STACK,
                   tokens, pc, reports, within>>

\* a sequence without its i-th element
Without(s, i) == SubSeq(s, 1, i - 1) \o SubSeq(s, i + 1, Len(s))

\* the finally half of the i-th open block, whichever it is: context managers
\* entered and left by hand (__enter__ / __exit__, ExitStack) close in any order.
\* The code is that of step_exit: it pops the top of the stack, not its own list.
step_exit_at(i) ==
    /\ UNCHANGED <<parallel, finished, cfg_ATTACH_LIMIT_BYTES>>
    /\ pc \in UserPhases
    /\ i \in 1..Len(scopes)
    /\ LET s == scopes[i] IN
        /\ IF s.phase = pc THEN TRUE ELSE s.phase = "setup" /\ pc = "finalizers"
        /\ scopes' = Without(scopes, i)
        /\ last' = [op |-> "step_exit", ret |-> "None", entry |-> s.node]
        /\ IF s.node = 0
              THEN UNCHANGED <<heap, stack, exc>>
           ELSE IF stack = <<>>
              THEN \* list.pop() of an empty list raises IndexError
                   /\ exc' = "error"
                   /\ UNCHANGED <<heap, stack>>
           ELSE /\ stack' = StackAfterExit(stack)
                /\ heap' = [heap EXCEPT ![s.node].passed = StepPassed(heap, s.node)]
                /\ UNCHANGED exc
    /\ UNCHANGED <<root_list, CURRENT_EXECUTION_LOG, CURRENT_LOG_CONTAINER_STACK,
                   tokens, pc, reports, within>>

\* the dict soft_assert builds
AssertEntry(passed, label, details) ==
    IF details # "None"
        THEN [type |-> "assert", label |-> label, passed |-> passed, details |-> details]
        ELSE [type |-> "assert", label |-> label, passed |-> passed]

\* a soft assertion that raises like a plain assert
Mut_SoftAssertCompletion_Hard(passed) == IF passed THEN "return" ELSE "raise"

\* what a call of soft_assert does next: "return" or "raise"
SoftAssertCompletion(passed) == "return"

soft_assert(condition, label, details) ==
    /\ UNCHANGED <<parallel, finished, cfg_ATTACH_LIMIT_BYTES>>
    /\ pc \in UserPhases /\ exc = "none"
    /\ (CURRENT_LOG_CONTAINER_STACK # "None" /\ stack # <<>>) => MayAdd
    /\ LET passed == Truthy(condition)
           added == add_log_entry(heap, root_list, stack, CURRENT_LOG_CONTAINER_STACK,
                                  AssertEntry(passed, label, details))
           how == SoftAssertCompletion(passed)
       IN /\ heap' = added.heap
          /\ root_list' = added.root_list
          /\ exc' = IF how = "raise" /\ pc = "call" THEN "error" ELSE exc
          /\ within' = Noted(added.id)
          /\ last' = [op |-> "soft_assert",
                      ret |-> IF how = "raise" THEN "raised"
                              ELSE IF passed THEN "True" ELSE "False",
                      entry |-> added.id, details |-> details]
    /\ UNCHANGED <<stack, CURRENT_EXECUTION_LOG, CURRENT_LOG_CONTAINER_STACK, tokens,
                   pc, scopes, reports>>

\* an attach that never marks the label
Mut_TruncationNote_Never(truncated) == <<>>

\* if truncated: extra_note = " (truncated)"
TruncationNote(truncated) == IF truncated THEN <<" (truncated)">> ELSE <<>>

\* the try block raises: json.dumps a ValueError (circular reference), f.read()
\* an OSError, repr(data) whatever __repr__ raises
AttachRaised(data) ==
    data.kind \in {"dict_circular", "imgpath_unreadable", "other_repr_raises"}

\* an attach without its except clause
Mut_AttachCompletion_Propagates(raised) == IF raised THEN "raise" ELSE "return"

\* what a call of attach does next, "return" or "raise": `except Exception`
\* takes whatever the try block raised
AttachCompletion(raised) == "return"

\* the try block of attach and its except clause: content_type, formatted_data
\* and extra_note for the data
AttachFormat(data, mime) ==
    LET t == maybe_truncate(data.size)
        note == TruncationNote(t.truncated)
        text(form, ctype) == [content_type |-> ctype, extra_note |-> note,
                              formatted_data |-> [form |-> form, size |-> t.size]]
        uri(this_mime, n) == [content_type |-> "image", extra_note |-> n,
                              formatted_data |-> [form |-> "data_uri_base64", size |-> t.size,
                                                  mime |-> this_mime]]
        error == [content_type |-> "text", extra_note |-> <<>>,
                  formatted_data |-> [form |-> "ERROR while attaching data", size |-> 0]]
    IN CASE AttachRaised(data) -> error
         [] data.kind = "dict" -> text("json_dumps", "json")
         [] data.kind = "dict_typeerror" -> text("repr", "text")
         [] data.kind = "bytes" ->
                uri(IF mime # "None" THEN mime ELSE "detect_mime_from_bytes", note)
         [] data.kind = "imgpath" ->
                uri(IF mime # "None" THEN mime ELSE "mime_from_suffix",
                    IF t.truncated THEN <<" (truncated from file)">> ELSE <<>>)
         [] data.kind = "str" -> text("str", "text")
         [] OTHER -> text("repr", "text")

\* an attachment that is logged as a failed assertion
Mut_AttachEntry_FailedAssert(label, f) ==
    [type |-> "assert", label |-> label, passed |-> FALSE]

\* the dict attach builds: label = f"{label}{extra_note}"
AttachEntry(label, f) ==
    [type |-> "attachment", label |-> <<label>> \o f.extra_note,
     data |-> f.formatted_data, content_type |-> f.content_type]

attach(data, label, mime) ==
    /\ UNCHANGED <<parallel, finished, cfg_ATTACH_LIMIT_BYTES>>
    /\ pc \in UserPhases /\ exc = "none"
    /\ IF CURRENT_LOG_CONTAINER_STACK = "None"
          THEN /\ last' = [op |-> "attach", ret |-> "None", entry |-> 0]
               /\ UNCHANGED <<heap, root_list, within, exc>>
          ELSE /\ stack # <<>> => MayAdd
               /\ IF AttachCompletion(AttachRaised(data)) = "raise"
                     THEN /\ exc' = "error"
                          /\ last' = [op |-> "attach", ret |-> "raised", entry |-> 0,
                                      data |-> data, label |-> label]
                          /\ UNCHANGED <<heap, root_list, within>>
                     ELSE LET added == add_log_entry(heap, root_list, stack,
                                          CURRENT_LOG_CONTAINER_STACK,
                                          AttachEntry(label, AttachFormat(data, mime)))
                          IN /\ heap' = added.heap
                             /\ root_list' = added.root_list
                             /\ last' = [op |-> "attach", ret |-> "None", entry |-> added.id,
                                         data |-> data, label |-> label]
                             /\ within' = Noted(added.id)
                             /\ UNCHANGED exc
    /\ UNCHANGED <<stack, CURRENT_EXECUTION_LOG, CURRENT_LOG_CONTAINER_STACK, tokens,
                   pc, scopes, reports>>

---------------------------------------------------------------------------
(* The test body, as the runner drives it *)

\* the body raises: an ordinary exception, or pytest.skip()
body_raise(kind) ==
    /\ UNCHANGED <<parallel, finished, cfg_ATTACH_LIMIT_BYTES>>
    /\ pc = "call" /\ exc = "none"
    /\ exc' = kind
    /\ last' = [op |-> "raise", ret |-> "None", entry |-> 0]
    /\ UNCHANGED <<within, heap, root_list, stack, CURRENT_EXECUTION_LOG,
                   CURRENT_LOG_CONTAINER_STACK, tokens, pc, scopes, reports>>

\* the body returns, or the exception leaves it, once its with-blocks have closed
body_end ==
    /\ UNCHANGED <<parallel, finished, cfg_ATTACH_LIMIT_BYTES>>
    /\ pc = "call"
    /\ IF scopes = <<>> THEN TRUE ELSE Top(scopes).phase # "call"
    /\ pc' = "callEnded"
    /\ last' = [op |-> "body_end", ret |-> "None", entry |-> 0]
    /\ UNCHANGED <<within, heap, root_list, stack, CURRENT_EXECUTION_LOG,
                   CURRENT_LOG_CONTAINER_STACK, tokens, scopes, exc, reports>>

---------------------------------------------------------------------------
(* The runner's hooks: qapytest/_plugin.py *)

\* The TestReport the runner's own makereport yields to the hookwrapper.
\* wasxfail is "<unset>" when the report has no such attribute.
RawReport(when, e, mark) ==
    LET rep(outcome, wasxfail, longrepr) ==
            [when |-> when, outcome |-> outcome, wasxfail |-> wasxfail,
             longrepr |-> [kind |-> longrepr, lines |-> <<>>],
             has_execution_log |-> FALSE, execution_log |-> <<>>,
             user_properties |-> <<>>, softfailed |-> FALSE,
             soft_assert_only |-> FALSE, excinfo |-> e]
        reason == IF mark = "xfail_noreason" THEN "" ELSE "reason"
    IN CASE e = "skip" -> rep("skipped", "<unset>", "native")
         [] e = "error" /\ mark = "nomark" -> rep("failed", "<unset>", "native")
         [] e = "error" /\ mark # "nomark" -> rep("skipped", reason, "native")
         [] e = "none" /\ mark = "nomark" -> rep("passed", "<unset>", "None")
         [] e = "none" /\ mark = "xfail_strict" -> rep("failed", "<unset>", "native")
         [] OTHER -> rep("passed", reason, "None")

\* the five verdicts of a report
Verdict(outcome, wasxfail) ==
    CASE outcome = "failed" -> "Failed"
      [] outcome = "passed" /\ wasxfail = "<unset>" -> "Passed"
      [] outcome = "passed" /\ wasxfail # "<unset>" -> "UnexpectedPass"
      [] outcome = "skipped" /\ wasxfail = "<unset>" -> "Skipped"
      [] OTHER -> "ExpectedFailure"

\* a reclassifier that does not look at the runner's outcome
Mut_SoftFailed_AnyOutcome(report, h) ==
    /\ report.when = "call"
    /\ has_failures_in_log(h, report.execution_log)

\* a reclassifier that does not look at the log
Mut_SoftFailed_AnyLog(report, h) ==
    /\ report.when = "call"
    /\ report.outcome = "passed"

\* a reclassifier that does not look at the phase of the report
Mut_SoftFailed_AnyPhase(report, h) ==
    /\ report.outcome = "passed"
    /\ has_failures_in_log(h, report.execution_log)

\* the condition of line 185
SoftFailed(report, h) ==
    /\ report.when = "call"
    /\ report.outcome = "passed"
    /\ has_failures_in_log(h, report.execution_log)

\* a reclassifier with the two branches swapped
Mut_ReclassifiedOutcome_Swapped(report) ==
    IF report.wasxfail \notin {"<unset>", ""} THEN "failed" ELSE "skipped"

\* lines 188-191: getattr(report, "wasxfail", None) is truthy
ReclassifiedOutcome(report) ==
    IF report.wasxfail \notin {"<unset>", ""} THEN "skipped" ELSE "failed"

\* lines 198-204: the longrepr is replaced by its decoded text.  has_escapes: the
\* runner's own text holds "\u"; the messages and labels of the model hold none,
\* so neither does a generated summary.
DecodeLongrepr(report, disable_unicode, has_escapes) ==
    IF ~disable_unicode /\ report.longrepr.kind = "native" /\ has_escapes
        THEN [report EXCEPT !.longrepr.kind = "decoded text of " \o @]
        ELSE report

\* a hookwrapper that puts the log on passed reports only
Mut_HasExecutionLog_PassedOnly(report, execution_log) ==
    execution_log # "None" /\ report.outcome = "passed"

\* line 181: isinstance(execution_log, list), for the value of
\* CURRENT_EXECUTION_LOG.get(); the report plays no part
HasExecutionLog(report, execution_log) == execution_log # "None"

\* a summary without its header line
Mut_full_summary_NoHeader(error_summary_lines) == error_summary_lines

\* lines 193-195: full_summary = [header, *error_summary_lines]
full_summary(error_summary_lines) ==
    <<"One or more assertions failed.">> \o error_summary_lines

\* the hookwrapper after its yield, applied to the runner's report (the decoding
\* of escapes in nodeid and location, lines 157-166, touches no field kept here)
pytest_runtest_makereport(raw, h, disable_unicode, has_escapes) ==
    LET named == raw @@
                 [exc_class_name |-> CASE raw.excinfo = "error" -> "RuntimeError"
                                       [] raw.excinfo = "skip" -> "Skipped"
                                       [] OTHER -> "None"]
        logged == IF HasExecutionLog(named, CURRENT_EXECUTION_LOG)
                     THEN [named EXCEPT !.has_execution_log = TRUE,
                                        !.execution_log = root_list,
                                        !.user_properties = Append(@, "execution_log")]
                     ELSE named
        judged == IF logged.has_execution_log /\ SoftFailed(logged, h)
                     THEN [logged EXCEPT
                             !.softfailed = TRUE,
                             !.soft_assert_only = TRUE,
                             !.outcome = ReclassifiedOutcome(logged),
                             !.longrepr = [kind |-> "summary",
                                           lines |-> full_summary(
                                               generate_terminal_summary(h, logged.execution_log, 0))]]
                     ELSE logged
    IN DecodeLongrepr(judged, disable_unicode, has_escapes)

\* a report and the runner's report it was made from
Reported(raw, disable_unicode, has_escapes) ==
    [raw |-> raw, rep |-> pytest_runtest_makereport(raw, heap, disable_unicode, has_escapes)]

pytest_runtest_setup ==
    /\ UNCHANGED <<parallel, finished, cfg_ATTACH_LIMIT_BYTES>>
    /\ pc = "idle" /\ scopes = <<>>
    /\ root_list' = <<>>
    /\ stack' = <<0>>
    /\ CURRENT_EXECUTION_LOG' = "root_list"
    /\ CURRENT_LOG_CONTAINER_STACK' = "stack"
    /\ tokens' = TRUE
    /\ pc' = "setup"
    /\ last' = [op |-> "pytest_runtest_setup", ret |-> "None", entry |-> 0]
    /\ UNCHANGED <<within, heap, scopes, exc, reports>>

\* an item the runner skips before this plugin's setup hook runs (skip mark):
\* only the setup report is made, then teardown
setup_skipped ==
    /\ UNCHANGED <<parallel, finished, cfg_ATTACH_LIMIT_BYTES>>
    /\ pc = "idle" /\ scopes = <<>>
    /\ \E du \in BOOLEAN, esc \in BOOLEAN :
          reports' = [reports EXCEPT
                         !.setup = Reported(RawReport("setup", "skip", "nomark"), du, esc)]
    /\ tokens' = FALSE
    /\ pc' = "teardown"
    /\ last' = [op |-> "makereport_setup", ret |-> "None", entry |-> 0]
    /\ UNCHANGED <<within, heap, root_list, stack, CURRENT_EXECUTION_LOG,
                   CURRENT_LOG_CONTAINER_STACK, scopes, exc>>

makereport_setup ==
    /\ UNCHANGED <<parallel, finished, cfg_ATTACH_LIMIT_BYTES>>
    /\ pc = "setup" /\ exc = "none"
    /\ \E du \in BOOLEAN :
          reports' = [reports EXCEPT
                         !.setup = Reported(RawReport("setup", "none", "nomark"), du, FALSE)]
    /\ pc' = "call"
    /\ last' = [op |-> "makereport_setup", ret |-> "None", entry |-> 0]
    /\ UNCHANGED <<within, heap, root_list, stack, CURRENT_EXECUTION_LOG,
                   CURRENT_LOG_CONTAINER_STACK, tokens, scopes, exc>>

makereport_call(mark, disable_unicode, has_escapes) ==
    /\ UNCHANGED <<parallel, finished, cfg_ATTACH_LIMIT_BYTES>>
    /\ pc = "callEnded"
    /\ reports' = [reports EXCEPT
                      !.call = Reported(RawReport("call", exc, mark),
                                        disable_unicode, has_escapes)]
    /\ exc' = "none"
    /\ pc' = "teardown"
    /\ last' = [op |-> "makereport_call", ret |-> "None", entry |-> 0]
    /\ UNCHANGED <<within, heap, root_list, stack, CURRENT_EXECUTION_LOG,
                   CURRENT_LOG_CONTAINER_STACK, tokens, scopes>>

\* a teardown hook that leaves the context variables as they are
Mut_reset_Keeps(token, value) == value

\* `if token: VAR.reset(token)`: back to the value before the set of
\* pytest_runtest_setup, which is None; without a token nothing happens
reset(token, value) == IF token THEN "None" ELSE value

pytest_runtest_teardown ==
    /\ UNCHANGED <<parallel, finished, cfg_ATTACH_LIMIT_BYTES>>
    /\ pc = "teardown"
    /\ CURRENT_EXECUTION_LOG' = reset(tokens, CURRENT_EXECUTION_LOG)
    /\ CURRENT_LOG_CONTAINER_STACK' = reset(tokens, CURRENT_LOG_CONTAINER_STACK)
    /\ pc' = "finalizers"
    /\ last' = [op |-> "pytest_runtest_teardown", ret |-> "None", entry |-> 0]
    /\ UNCHANGED <<within, heap, root_list, stack, tokens, scopes, exc, reports>>

makereport_teardown ==
    /\ UNCHANGED <<parallel, finished, cfg_ATTACH_LIMIT_BYTES>>
    /\ pc = "finalizers" /\ exc = "none" /\ scopes = <<>>
    /\ \E du \in BOOLEAN :
          reports' = [reports EXCEPT
                         !.teardown = Reported(RawReport("teardown", "none", "nomark"), du, FALSE)]
    /\ pc' = "reported"
    /\ last' = [op |-> "makereport_teardown", ret |-> "None", entry |-> 0]
    /\ UNCHANGED <<within, heap, root_list, stack, CURRENT_EXECUTION_LOG,
                   CURRENT_LOG_CONTAINER_STACK, tokens, scopes, exc>>

\* the runner has handed the three reports on and turns to the next item; the
\* lists and entries of the finished item are referenced no more
next_item ==
    /\ UNCHANGED <<parallel, finished, cfg_ATTACH_LIMIT_BYTES>>
    /\ pc = "reported"
    /\ heap' = <<>>
    /\ root_list' = <<>>
    /\ stack' = <<>>
    /\ tokens' = FALSE
    /\ reports' = [setup |-> NoReport, call |-> NoReport, teardown |-> NoReport]
    /\ pc' = "idle"
    /\ last' = NoLast
    /\ within' = <<>>
    /\ UNCHANGED <<CURRENT_EXECUTION_LOG, CURRENT_LOG_CONTAINER_STACK, scopes, exc>>

\* the runner turns to the next item while the reporter keeps the call report of
\* the finished one: its lists and entries live on beside those of the items
\* to come.  upto: the entries there were when the item ended.
next_item_kept ==
    /\ UNCHANGED <<parallel, cfg_ATTACH_LIMIT_BYTES>>
    /\ pc = "reported"
    /\ Len(finished) < MaxKeptItems
    /\ finished' = Append(finished, [root |-> root_list, upto |-> Len(heap)])
    /\ root_list' = <<>>
    /\ stack' = <<>>
    /\ tokens' = FALSE
    /\ reports' = [setup |-> NoReport, call |-> NoReport, teardown |-> NoReport]
    /\ pc' = "idle"
    /\ last' = NoLast
    /\ UNCHANGED <<heap, within, CURRENT_EXECUTION_LOG, CURRENT_LOG_CONTAINER_STACK,
                   scopes, exc>>

---------------------------------------------------------------------------
(* Items of every mark whose fixtures and test body record, and whose
   finalizers only close the steps the fixtures hold open *)

RecordingPhases == UserPhases \ {"finalizers"}

Next ==
    \/ \E m \in StepMessages : pc \in RecordingPhases /\ step_enter(m)
    \/ step_exit
    \/ \E a \in AssertInputs, l \in AssertLabels :
          pc \in RecordingPhases /\ soft_assert(a.condition, l, a.details)
    \/ \E a \in AttachInputs, l \in AttachLabels :
          pc \in RecordingPhases /\ attach(a.data, l, a.mime)
    \/ \E kind \in {"error", "skip"} : body_raise(kind)
    \/ body_end
    \/ pytest_runtest_setup
    \/ setup_skipped
    \/ makereport_setup
    \/ \E mark \in XfailMarks, du \in BOOLEAN, esc \in BOOLEAN : makereport_call(mark, du, esc)
    \/ pytest_runtest_teardown
    \/ makereport_teardown
    \/ next_item

Spec == Init /\ [][Next]_vars

---------------------------------------------------------------------------
(* Unmarked items whose finalizers record as well, after the teardown hook has
   reset the context *)

NextLate ==
    \/ \E m \in StepMessages : step_enter(m)
    \/ step_exit
    \/ \E a \in AssertInputs, l \in AssertLabels : soft_assert(a.condition, l, a.details)
    \/ \E a \in AttachInputs, l \in AttachLabels : attach(a.data, l, a.mime)
    \/ \E kind \in {"error", "skip"} : body_raise(kind)
    \/ body_end
    \/ pytest_runtest_setup
    \/ setup_skipped
    \/ makereport_setup
    \/ makereport_call("nomark", TRUE, FALSE)
    \/ pytest_runtest_teardown
    \/ makereport_teardown
    \/ next_item

SpecLate == Init /\ [][NextLate]_vars

---------------------------------------------------------------------------
(* Unmarked items one after the other, the trees of the finished ones kept;
   steps and failing soft assertions in the fixtures, in the body, in the
   finalizers and between the items *)

NextSequence ==
    \/ \E m \in StepMessages : step_enter(m)
    \/ step_exit
    \/ \E l \in AssertLabels : soft_assert([t |-> "bool", v |-> 0], l, "None")
    \/ body_end
    \/ pytest_runtest_setup
    \/ makereport_setup
    \/ makereport_call("nomark", TRUE, FALSE)
    \/ pytest_runtest_teardown
    \/ makereport_teardown
    \/ next_item_kept

SpecSequence == Init /\ [][NextSequence]_vars

---------------------------------------------------------------------------
(* Unmarked items whose fixtures and bodies open steps and close them in any
   order, with failing soft assertions and attachments in between, and bodies
   that raise *)

NextUnordered ==
    \/ \E m \in StepMessages : pc \in RecordingPhases /\ step_enter(m)
    \/ \E i \in 1..(MaxNodes + MaxInactiveDepth) : step_exit_at(i)
    \/ \E l \in AssertLabels :
          pc \in RecordingPhases /\ soft_assert([t |-> "bool", v |-> 0], l, "None")
    \/ \E a \in AttachInputs, l \in AttachLabels :
          pc \in RecordingPhases /\ attach(a.data, l, a.mime)
    \/ body_raise("error")
    \/ body_end
    \/ pytest_runtest_setup
    \/ makereport_setup
    \/ makereport_call("nomark", TRUE, FALSE)
    \/ pytest_runtest_teardown
    \/ makereport_teardown
    \/ next_item

SpecUnordered == Init /\ [][NextUnordered]_vars

---------------------------------------------------------------------------
(* An item whose body attaches data of every kind and size, at the top level
   and inside steps; calls of attach before the item as well *)

NextAttach ==
    \/ pytest_runtest_setup
    \/ makereport_setup
    \/ \E m \in StepMessages : pc = "call" /\ Len(heap) < MaxAttachments /\ step_enter(m)
    \/ step_exit
    \/ \E a \in AllAttachInputs, l \in AttachLabels :
          pc \in {"idle", "call"} /\ Len(heap) < MaxAttachments /\ attach(a.data, l, a.mime)

SpecAttach == Init /\ [][NextAttach]_vars

\* the same item in a run started without --max-attachment-bytes
SpecNotGiven == InitNotGiven /\ [][NextAttach]_vars

---------------------------------------------------------------------------
(* Two items run side by side in one process, each in a context of its own
   (a thread of its own).  A context variable holds one value per context; the
   lists the hooks make are objects of the process: list k is the one the setup
   of item k made.  A container is named -k for root_list k and n > 0 for
   heap[n].children. *)

\* items that all run in one and the same context
Mut_ContextOf_Shared(e) == 1

\* the context the hooks and the body of item e run in
ContextOf(e) == e

RootOf(k) == 0 - k

\* CURRENT_LOG_CONTAINER_STACK.get() as item e sees it: 0 for None, else the list
StackSeenBy(e) == contexts[ContextOf(e)].stack

\* utils.add_log_entry(entry) called by item e: the heap and the lists after it
Recorded(e, entry) ==
    LET sref == StackSeenBy(e) IN
        IF sref = 0
            THEN [heap |-> heap, executions |-> executions, id |-> 0]
        ELSE IF executions[sref].stack = <<>>
            THEN [heap |-> heap, executions |-> executions, id |-> 0]
        ELSE LET c == Top(executions[sref].stack)
                 added == IF c < 0
                             THEN add_log_entry(heap, executions[0 - c].root_list, <<0>>,
                                                "stack", entry)
                             ELSE add_log_entry(heap, <<>>, <<c>>, "stack", entry)
                 lists == IF c < 0
                             THEN [executions EXCEPT ![0 - c].root_list = added.root_list]
                             ELSE executions
             IN [heap |-> added.heap,
                 executions |-> [lists EXCEPT ![e].recorded = @ \cup {added.id}],
                 id |-> added.id]

ParallelMayAdd == Len(heap) < MaxParallelNodes

parallel_setup(e) ==
    /\ executions[e].pc = "idle"
    /\ executions' = [executions EXCEPT ![e].pc = "running",
                                        ![e].root_list = <<>>,
                                        ![e].stack = <<RootOf(e)>>,
                                        ![e].tokens = contexts[ContextOf(e)]]
    /\ contexts' = [contexts EXCEPT ![ContextOf(e)] = [log |-> e, stack |-> e]]
    /\ UNCHANGED <<heap, sequential>>

parallel_step_enter(e, message) ==
    /\ executions[e].pc = "running"
    /\ LET sref == StackSeenBy(e) IN
        IF not_stack(IF sref = 0 THEN "None" ELSE "stack",
                     IF sref = 0 THEN <<>> ELSE executions[sref].stack)
          THEN /\ Len(SelectSeq(executions[e].scopes, LAMBDA s : s.node = 0)) < MaxInactiveDepth
               /\ executions' = [executions EXCEPT
                                    ![e].scopes = Append(@, [node |-> 0, stack |-> 0])]
               /\ UNCHANGED heap
          ELSE /\ ParallelMayAdd
               /\ LET r == Recorded(e, [type |-> "step", message |-> message,
                                        passed |-> TRUE, children |-> <<>>])
                  IN /\ heap' = r.heap
                     /\ executions' = [r.executions EXCEPT
                                          ![sref].stack = Append(@, r.id),
                                          ![e].scopes = Append(@, [node |-> r.id,
                                                                   stack |-> sref])]
    /\ UNCHANGED <<contexts, sequential>>

parallel_step_exit(e) ==
    /\ executions[e].pc = "running"
    /\ executions[e].scopes # <<>>
    /\ LET s == Top(executions[e].scopes) IN
        IF s.node = 0
            THEN /\ executions' = [executions EXCEPT ![e].scopes = Pop(@)]
                 /\ UNCHANGED heap
        ELSE IF executions[s.stack].stack = <<>>
            THEN \* list.pop() of an empty list raises IndexError
                 /\ executions' = [executions EXCEPT ![e].scopes = Pop(@),
                                                     ![e].pc = "error"]
                 /\ UNCHANGED heap
        ELSE /\ executions' = [executions EXCEPT ![s.stack].stack = StackAfterExit(@),
                                                 ![e].scopes = Pop(@)]
             /\ heap' = [heap EXCEPT ![s.node].passed = StepPassed(heap, s.node)]
    /\ UNCHANGED <<contexts, sequential>>

parallel_soft_assert(e, condition, label, details) ==
    /\ executions[e].pc = "running"
    /\ ParallelMayAdd
    /\ LET r == Recorded(e, AssertEntry(Truthy(condition), label, details))
       IN /\ heap' = r.heap
          /\ executions' = r.executions
    /\ UNCHANGED <<contexts, sequential>>

parallel_attach(e, data, label, mime) ==
    /\ executions[e].pc = "running"
    /\ ParallelMayAdd
    /\ StackSeenBy(e) # 0
    /\ LET r == Recorded(e, AttachEntry(label, AttachFormat(data, mime)))
       IN /\ heap' = r.heap
          /\ executions' = r.executions
    /\ UNCHANGED <<contexts, sequential>>

\* the call report of item e: report.execution_log = list(CURRENT_EXECUTION_LOG.get())
parallel_makereport(e) ==
    /\ executions[e].pc = "running"
    /\ executions[e].scopes = <<>>
    /\ LET lref == contexts[ContextOf(e)].log IN
          executions' = [executions EXCEPT
                            ![e].pc = "reported",
                            ![e].report = IF lref = 0 THEN <<>>
                                          ELSE executions[lref].root_list]
    /\ UNCHANGED <<heap, contexts, sequential>>

parallel_teardown(e) ==
    /\ executions[e].pc = "reported"
    /\ contexts' = [contexts EXCEPT ![ContextOf(e)] = executions[e].tokens]
    /\ executions' = [executions EXCEPT ![e].pc = "ended"]
    /\ UNCHANGED <<heap, sequential>>

NextParallel ==
    \E e \in Executions :
        \/ parallel_setup(e)
        \/ \E m \in StepMessages : parallel_step_enter(e, m)
        \/ parallel_step_exit(e)
        \/ \E a \in AssertInputs, l \in AssertLabels :
              a.details = "None" /\ parallel_soft_assert(e, a.condition, l, a.details)
        \/ \E a \in AttachInputs, l \in AttachLabels : parallel_attach(e, a.data, l, a.mime)
        \/ parallel_makereport(e)
        \/ parallel_teardown(e)

SpecParallel == Init /\ [][NextParallel]_vars

---------------------------------------------------------------------------
(* An item, unmarked or marked xfail, whose fixtures open steps and whose body
   records steps and soft assertions under distinct messages and labels, up to
   its call report *)

NextSummary ==
    \/ pytest_runtest_setup
    \/ makereport_setup
    \/ \E m \in SummaryMessages : pc \in {"setup", "call"} /\ step_enter(m)
    \/ pc = "call" /\ step_exit
    \/ \E c \in BOOLEAN, l \in SummaryLabels :
          pc = "call" /\ soft_assert([t |-> "bool", v |-> IF c THEN 1 ELSE 0], l, "None")
    \/ body_end
    \/ \E mark \in {"nomark", "xfail_reason"} : makereport_call(mark, TRUE, FALSE)

SpecSummary == Init /\ [][NextSummary]_vars

---------------------------------------------------------------------------
(* Properties *)

\* the state right after the hookwrapper made the call-phase report: heap and
\* root_list are the tree it read
CallJustReported == last.op = "makereport_call"
RawCall == reports.call.raw
CorrectedCall == reports.call.rep
RootHasFailures == has_failures_in_log(heap, root_list)
RawVerdict == Verdict(RawCall.outcome, RawCall.wasxfail)
CorrectedVerdict == Verdict(CorrectedCall.outcome, CorrectedCall.wasxfail)

\* C1: a call report the runner made passed, with no exception and no xfail mark,
\* whose root tree has failures, leaves the hookwrapper with outcome failed.
C1_CleanPassWithFailuresFails ==
    (CallJustReported /\ RawVerdict = "Passed" /\ RawCall.excinfo = "none" /\ RootHasFailures)
        => CorrectedCall.outcome = "failed"

C1_Witness ==
    /\ CallJustReported /\ RawVerdict = "Passed" /\ RawCall.excinfo = "none"
    /\ RootHasFailures
    /\ CorrectedCall.outcome = "failed"

\* C2 as stated: whenever the runner's verdict is other than Passed (Failed,
\* Skipped, ExpectedFailure, UnexpectedPass), the corrected verdict is the
\* runner's verdict, whatever the tree holds.
C2_NonPassedVerdictUnchanged ==
    (CallJustReported /\ RawVerdict # "Passed") => CorrectedVerdict = RawVerdict

\* C2 amended: whenever the runner's outcome is other than passed (verdicts
\* Failed, Skipped, ExpectedFailure), the corrected verdict is the runner's
\* verdict, whatever the tree holds.
C2_NonPassedOutcomeUnchanged ==
    (CallJustReported /\ RawCall.outcome # "passed")
        => /\ CorrectedVerdict = RawVerdict
           /\ CorrectedCall.outcome = RawCall.outcome

C2_Witness ==
    /\ CallJustReported /\ RawVerdict = "Skipped" /\ RootHasFailures
    /\ CorrectedVerdict = "Skipped"

\* C3: when the body raised and the runner's verdict is Failed, a tree with
\* failing soft assertions leaves the verdict Failed and the longrepr the
\* runner's own, not the generated summary.
C3_HardFailureKept ==
    (CallJustReported /\ RawCall.excinfo = "error" /\ RawVerdict = "Failed" /\ RootHasFailures)
        => /\ CorrectedVerdict = "Failed"
           /\ CorrectedCall.longrepr.kind \in {"native", "decoded text of native"}
           /\ CorrectedCall.longrepr.lines = <<>>

C3_Witness ==
    /\ CallJustReported /\ RawCall.excinfo = "error" /\ RawVerdict = "Failed"
    /\ RootHasFailures
    /\ CorrectedCall.longrepr.kind = "native"

C5_CleanPassKept ==
    (CallJustReported /\ RawVerdict = "Passed" /\ ~RootHasFailures)
        => /\ CorrectedVerdict = "Passed"
           /\ CorrectedCall.longrepr.kind = "None"
           /\ ~CorrectedCall.softfailed

C5_Witness ==
    /\ CallJustReported /\ RawVerdict = "Passed" /\ ~RootHasFailures
    /\ \E i, j, k \in 1..Len(heap) :
          /\ heap[i].type = "assert" /\ heap[j].type = "step" /\ heap[k].type = "attachment"
    /\ CorrectedVerdict = "Passed"

\* C6: every call of soft_assert, with a true or a false condition, with or
\* without an active context, returns the truth value of the condition and
\* leaves the caller running: no exception, same phase.
C6_SoftAssertNeverHalts ==
    [][\A a \in AssertInputs, l \in AssertLabels :
          soft_assert(a.condition, l, a.details)
            => /\ last'.ret = (IF Truthy(a.condition) THEN "True" ELSE "False")
               /\ exc' = "none"
               /\ pc' = pc]_vars

\* a false soft assertion has returned in the body, which an earlier false one
\* did not stop
C6_Witness ==
    /\ last.op = "soft_assert" /\ last.ret = "False" /\ last.entry # 0
    /\ pc = "call" /\ exc = "none"
    /\ \E i \in 1..(last.entry - 1) : heap[i].type = "assert" /\ ~heap[i].passed

\* C7: soft_assert with a false condition and no details records an entry
\* whose details field is present and holds the default placeholder text.
C7_DefaultDetailsRecorded ==
    (last.op = "soft_assert" /\ last.ret = "False" /\ last.details = "None" /\ last.entry # 0)
        => /\ "details" \in DOMAIN heap[last.entry]
           /\ heap[last.entry].details = DEFAULT_DETAILS

\* the entries recorded while with-block n was the innermost open one, oldest first
RECURSIVE RecordedIn(_, _)
RecordedIn(n, upto) ==
    IF upto = 0 THEN <<>>
    ELSE IF within[upto] = n THEN Append(RecordedIn(n, upto - 1), upto)
    ELSE RecordedIn(n, upto - 1)

\* C8: right after a step scope closes, its passed flag is the negation of
\* has_failures_in_log over its children, and its children are the entries
\* recorded inside the scope, in the order they were recorded; without
\* children the flag is true.
C8_StepCloseComputesPassed ==
    (last.op = "step_exit" /\ last.entry # 0)
        => LET n == last.entry IN
            /\ heap[n].passed = ~has_failures_in_log(heap, heap[n].children)
            /\ heap[n].children = RecordedIn(n, Len(heap))
            /\ heap[n].children = <<>> => heap[n].passed

\* two passing assertions and a failing one, then the close
C8_Witness ==
    /\ last.op = "step_exit" /\ last.entry # 0
    /\ LET n == last.entry IN
        /\ heap[n].children = <<n + 1, n + 2, n + 3>>
        /\ \A i \in {n + 1, n + 2, n + 3} : heap[i].type = "assert"
        /\ heap[n + 1].passed /\ ~heap[n + 2].passed /\ heap[n + 3].passed
        /\ ~heap[n].passed

\* every entry below a list of entries
RECURSIVE Descendants(_, _)
Descendants(h, log) ==
    UNION {{log[i]} \cup (IF h[log[i]].type = "step"
                             THEN Descendants(h, h[log[i]].children) ELSE {})
           : i \in 1..Len(log)}

OpenNodes == {scopes[i].node : i \in 1..Len(scopes)}

ParentOf(id) ==
    IF \E i \in 1..Len(root_list) : root_list[i] = id THEN 0
    ELSE CHOOSE n \in 1..Len(heap) :
            /\ heap[n].type = "step"
            /\ \E i \in 1..Len(heap[n].children) : heap[n].children[i] = id

\* the steps of the open with-blocks, outermost first
OpenStepNodes == [i \in 1..Len(scopes) |-> scopes[i].node]

\* C10: steps nest LIFO.  While the context is set, the container stack is
\* root_list followed by the children of the open with-blocks, outermost
\* first, so the insertion point is the innermost open step, and root_list
\* once all have closed; every entry lies in the container of the with-block
\* it was recorded in.
C10_StepsNestLifo ==
    /\ CURRENT_LOG_CONTAINER_STACK = "stack" => stack = <<0>> \o OpenStepNodes
    /\ \A id \in 1..Len(heap) : ParentOf(id) = within[id]

\* A, B, C opened, C closed, an entry recorded, B and A still open
C10_Witness ==
    /\ Len(heap) = 4
    /\ heap[1].type = "step" /\ heap[2].type = "step" /\ heap[3].type = "step"
    /\ heap[1].children = <<2>>
    /\ heap[2].children = <<3, 4>>
    /\ heap[3].children = <<>>
    /\ root_list = <<1>>
    /\ OpenStepNodes = <<1, 2>>
    /\ stack = <<0, 1, 2>>

\* C11: when a with-block of an active step closes while an exception unwinds
\* through it, the step pops its container off the stack, sets its passed flag
\* from the children it holds so far, and the exception goes on to the caller
\* unchanged.
C11_StepReleasesWhileUnwinding ==
    [][(step_exit /\ exc # "none" /\ Top(scopes).node # 0)
          => LET n == Top(scopes).node IN
              /\ stack' = Pop(stack)
              /\ Top(stack) = n
              /\ heap'[n].passed = ~has_failures_in_log(heap, heap[n].children)
              /\ heap'[n].children = heap[n].children
              /\ exc' = exc
              /\ pc' = pc]_vars

\* the body raised inside a step that holds a failing assertion; the step has
\* closed with passed false and the exception is still on its way
C11_Witness ==
    /\ last.op = "step_exit" /\ last.entry # 0
    /\ pc = "call" /\ exc = "error"
    /\ ~heap[last.entry].passed
    /\ \E i \in 1..Len(heap[last.entry].children) :
          LET c == heap[heap[last.entry].children[i]] IN c.type = "assert" /\ ~c.passed
    /\ last.entry \notin {stack[i] : i \in 1..Len(stack)}

\* the steps a fixture holds open around the body
FixtureScopes == SelectSeq(scopes, LAMBDA s : s.phase = "setup")

InactiveFrame ==
    UNCHANGED <<heap, root_list, stack, CURRENT_EXECUTION_LOG, CURRENT_LOG_CONTAINER_STACK,
                tokens, pc, exc, reports, within>>

\* C13: while no context is active, step, soft_assert and attach build no entry
\* and change nothing of the logs, the stack, the context, the reports or the
\* flow of the caller: step opens one no-op block and closes it again, soft_assert
\* returns the truth value of its condition, attach returns None.  Every entry
\* there is was recorded into the tree of the execution it was made in.
C13_InactiveCallsAreNoOps ==
    [][/\ CURRENT_LOG_CONTAINER_STACK = "None"
            => /\ \A m \in StepMessages :
                     step_enter(m)
                        => /\ InactiveFrame
                           /\ scopes' = Append(scopes, [node |-> 0, phase |-> pc])
                           /\ last'.entry = 0
               /\ (step_exit /\ Top(scopes).node = 0)
                     => (InactiveFrame /\ scopes' = Pop(scopes))
               /\ \A a \in AssertInputs, l \in AssertLabels :
                     soft_assert(a.condition, l, a.details)
                        => /\ InactiveFrame /\ scopes' = scopes
                           /\ last'.entry = 0
                           /\ last'.ret = (IF Truthy(a.condition) THEN "True" ELSE "False")
               /\ \A a \in AttachInputs, l \in AttachLabels :
                     attach(a.data, l, a.mime)
                        => /\ InactiveFrame /\ scopes' = scopes
                           /\ last'.entry = 0 /\ last'.ret = "None"
       /\ pytest_runtest_setup => (root_list' = <<>> /\ stack' = <<0>>)
       /\ Len(within') = Len(heap')
       /\ (heap' # heap \/ root_list' # root_list)
            => Descendants(heap', root_list') = 1..Len(heap')]_vars

\* inside a no-op step opened after the teardown hook, beside the finished tree
\* of the item, a false soft assertion has returned False
C13_Witness ==
    /\ CURRENT_LOG_CONTAINER_STACK = "None" /\ pc = "finalizers"
    /\ last.op = "soft_assert" /\ last.ret = "False" /\ last.entry = 0
    /\ scopes # <<>> /\ Top(scopes).node = 0
    /\ Len(heap) = MaxNodes
    /\ reports.call # NoReport

\* a list of entries, and every entry, with the attachments taken out
WithoutAttachments(h, log) == SelectSeq(log, LAMBDA i : h[i].type # "attachment")
HeapWithoutAttachments ==
    [i \in 1..Len(heap) |->
        IF heap[i].type = "step"
            THEN [heap[i] EXCEPT !.children = WithoutAttachments(heap, @)]
            ELSE heap[i]]

\* taking the attachments out of the tree, at every depth, changes neither
\* has_failures_in_log of root_list, nor the flag any step gets when it closes,
\* nor whether the call report is reclassified
C14_RemovalChangesNothing ==
    /\ has_failures_in_log(heap, root_list)
          = has_failures_in_log(HeapWithoutAttachments, WithoutAttachments(heap, root_list))
    /\ \A n \in 1..Len(heap) :
          heap[n].type = "step" => StepPassed(heap, n) = StepPassed(HeapWithoutAttachments, n)
    /\ CallJustReported =>
          /\ CorrectedCall.softfailed
                = SoftFailed([RawCall EXCEPT !.execution_log = WithoutAttachments(heap, root_list)],
                             HeapWithoutAttachments)
          /\ CorrectedCall.outcome = IF CorrectedCall.softfailed
                                        THEN ReclassifiedOutcome(RawCall)
                                        ELSE RawCall.outcome

\* a call of attach, at any depth, changes neither has_failures_in_log of
\* root_list, nor the passed flag of any step, nor the flag a close would compute
C14_AdditionChangesNothing ==
    last'.op = "attach"
        => /\ has_failures_in_log(heap', root_list') = has_failures_in_log(heap, root_list)
           /\ \A n \in 1..Len(heap) :
                 heap[n].type = "step"
                    => /\ heap'[n].passed = heap[n].passed
                       /\ StepPassed(heap', n) = StepPassed(heap, n)

\* C14: attachments never influence pass/fail.  Adding an attachment or taking
\* the attachments out, at any depth, changes neither the passed flag of any
\* enclosing step, nor has_failures_in_log of root_list, nor the corrected
\* outcome of the call report.
C14_AttachmentsNeverCount ==
    [][/\ C14_AdditionChangesNothing
       /\ <<heap, root_list, reports>>' # <<heap, root_list, reports>>
            => C14_RemovalChangesNothing']_vars

\* a passed call report over a closed, passed step that holds an attachment
\* inside a nested step and a passing assertion
C14_Witness ==
    /\ CallJustReported /\ RawVerdict = "Passed" /\ CorrectedVerdict = "Passed"
    /\ \E a, b, c, d \in 1..Len(heap) :
          /\ heap[a].type = "step" /\ heap[a].passed /\ a \notin OpenNodes
          /\ heap[b].type = "step" /\ heap[b].passed /\ heap[a].children = <<b, d>>
          /\ heap[c].type = "attachment" /\ heap[b].children = <<c>>
          /\ heap[d].type = "assert"

\* the containers there are: root_list (0) and the children of every step
Containers == {0} \cup {n \in 1..Len(heap) : heap[n].type = "step"}

\* C15: for every tree that recording reaches, read at any moment (steps still
\* open or all closed), has_failures_in_log is true exactly when the tree
\* holds, at some depth, an assertion with passed false or a step whose passed
\* flag is false.  The same for the subtree below every step.
C15_HasFailuresIffFailingEntry ==
    \A c \in Containers :
        LET T == ContainerItems(heap, root_list, c) IN
            has_failures_in_log(heap, T)
                <=> \E d \in Descendants(heap, T) :
                       heap[d].type \in {"assert", "step"} /\ ~heap[d].passed

\* the call report is made while a fixture holds a step open: its flag is still
\* true, the failing assertion two levels below it is found
C15_Witness ==
    /\ CallJustReported /\ CorrectedCall.softfailed
    /\ \E a, b, c \in 1..Len(heap) :
          /\ root_list = <<a>>
          /\ heap[a].type = "step" /\ heap[a].passed /\ a \in OpenNodes
          /\ heap[b].type = "step" /\ ~heap[b].passed /\ heap[a].children = <<b>>
          /\ heap[c].type = "assert" /\ ~heap[c].passed /\ heap[b].children = <<c>>

\* C16: failure propagates through every nesting level.  For a failing
\* assertion at any depth, every step around it that has closed has passed
\* false, and has_failures_in_log of root_list is true; so once all scopes have
\* closed every enclosing step is failed, up to root_list.
C16_FailurePropagatesUpward ==
    \A a \in 1..Len(heap) :
        (heap[a].type = "assert" /\ ~heap[a].passed)
            => /\ \A n \in 1..Len(heap) :
                    (/\ heap[n].type = "step"
                     /\ a \in Descendants(heap, heap[n].children)
                     /\ n \notin OpenNodes)
                        => ~heap[n].passed
               /\ a \in Descendants(heap, root_list)
               /\ has_failures_in_log(heap, root_list)

\* three nested steps with a failing assertion in the innermost, all closed
C16_Witness ==
    /\ Len(heap) = 4 /\ scopes = <<>> /\ pc = "call"
    /\ root_list = <<1>>
    /\ \A n \in 1..3 : /\ heap[n].type = "step" /\ heap[n].children = <<n + 1>>
                       /\ ~heap[n].passed
    /\ heap[4].type = "assert" /\ ~heap[4].passed
    /\ has_failures_in_log(heap, root_list)

\* data that attach logs as text: json.dumps, repr or str of it
TextKinds == {"dict", "dict_typeerror", "str", "other"}

\* C17: when attach records a payload whose text is longer than the byte
\* budget, the label of the entry ends with " (truncated)" and the body is as
\* long as the budget exactly; a payload within the budget, the budget itself
\* included, is recorded whole under the label as given.
C17_TruncationAtBudget ==
    (last.op = "attach" /\ last.entry # 0 /\ last.data.kind \in TextKinds)
        => LET e == heap[last.entry] IN
            IF last.data.size > ATTACH_LIMIT_BYTES
                THEN /\ e.label = <<last.label, " (truncated)">>
                     /\ e.data.size = ATTACH_LIMIT_BYTES
                ELSE /\ e.label = <<last.label>>
                     /\ e.data.size = last.data.size

\* a str one byte over the budget has been recorded after a dict of exactly the
\* budget
C17_Witness ==
    /\ last.op = "attach" /\ last.entry = 2
    /\ last.data = [kind |-> "str", size |-> ATTACH_LIMIT_BYTES + 1]
    /\ heap[2].label = <<last.label, " (truncated)">>
    /\ heap[2].data.size = ATTACH_LIMIT_BYTES
    /\ heap[1].type = "attachment" /\ heap[1].content_type = "json"
    /\ heap[1].data.size = ATTACH_LIMIT_BYTES /\ heap[1].label = <<"att">>
    /\ root_list = <<1, 2>>

\* C18: attach never raises and never aborts the test.  Every call returns None
\* with the caller's flow as it was; when the try block raised (serialization,
\* file reading, repr), the call has appended to the current container exactly
\* one entry, a text attachment whose body is the error description, under the
\* label as given.
C18_AttachNeverRaises ==
    [][\A a \in AllAttachInputs, l \in AttachLabels :
          attach(a.data, l, a.mime)
            => /\ last'.ret = "None"
               /\ exc' = exc /\ pc' = pc /\ scopes' = scopes /\ stack' = stack
               /\ (CURRENT_LOG_CONTAINER_STACK # "None" /\ AttachRaised(a.data))
                    => LET id == Len(heap) + 1 IN
                        /\ Len(heap') = id
                        /\ heap'[id].type = "attachment"
                        /\ heap'[id].content_type = "text"
                        /\ heap'[id].data.form = "ERROR while attaching data"
                        /\ heap'[id].label = <<l>>
                        /\ ContainerItems(heap', root_list', Top(stack))
                              = Append(ContainerItems(heap, root_list, Top(stack)), id)]_vars

\* inside a step of the body a dict with a circular reference was attached:
\* the step holds the error text, the body goes on
C18_Witness ==
    /\ last.op = "attach" /\ last.ret = "None" /\ last.entry = 2
    /\ last.data.kind = "dict_circular"
    /\ pc = "call" /\ exc = "none"
    /\ heap[1].type = "step" /\ heap[1].children = <<2>> /\ stack = <<0, 1>>
    /\ heap[2].content_type = "text"
    /\ heap[2].data.form = "ERROR while attaching data"

\* C20: once the hookwrapper has made the call report, the tree on the report
\* never changes.  Making the report changes no entry and exposes root_list as
\* it is; every later step of the item leaves the report's execution_log, its
\* entries, the order of their children and every passed flag as they were.
C20_FinalizedTreeNeverChanges ==
    [][/\ (reports.call = NoReport /\ reports'.call # NoReport)
            => /\ heap' = heap
               /\ reports'.call.rep.execution_log = root_list
       /\ (reports.call # NoReport /\ reports'.call # NoReport)
            => /\ reports'.call.rep.execution_log = reports.call.rep.execution_log
               /\ \A d \in Descendants(heap, reports.call.rep.execution_log) :
                     heap'[d] = heap[d]]_vars

\* the steps item e has open, outermost first
OpenStepsOf(e) ==
    LET active == SelectSeq(executions[e].scopes, LAMBDA s : s.node # 0)
    IN [i \in 1..Len(active) |-> active[i].node]

\* C19: two items run side by side.  In every state of every interleaving of
\* their hooks, step enters and exits, soft assertions and attachments, the tree
\* of each holds exactly the entries its own calls recorded, its stack is its
\* root_list and the steps it has open itself, the lists its calls see through
\* the context variables are its own, and the tree its call report exposes is
\* its own.
C19_ExecutionsAreIsolated ==
    \A e \in Executions :
        /\ Descendants(heap, executions[e].root_list) = executions[e].recorded
        /\ executions[e].pc = "running"
              => executions[e].stack = <<RootOf(e)>> \o OpenStepsOf(e)
        /\ executions[e].pc \in {"running", "reported"}
              => contexts[ContextOf(e)] = [log |-> e, stack |-> e]
        /\ executions[e].pc \in {"reported", "ended"}
              => /\ executions[e].report = executions[e].root_list
                 /\ Descendants(heap, executions[e].report) = executions[e].recorded
        /\ \A o \in Executions \ {e} :
              executions[e].recorded \cap executions[o].recorded = {}

\* both items have ended; their entries were recorded in turns: item 1 a step
\* holding a failing assertion, item 2 a step holding an attachment
C19_Witness ==
    /\ \A e \in Executions : executions[e].pc = "ended"
    /\ executions[1].recorded = {1, 3} /\ executions[2].recorded = {2, 4}
    /\ executions[1].report = <<1>> /\ executions[2].report = <<2>>
    /\ heap[1].type = "step" /\ heap[1].children = <<3>> /\ ~heap[1].passed
    /\ heap[2].type = "step" /\ heap[2].children = <<4>> /\ heap[2].passed
    /\ heap[3].type = "assert" /\ heap[4].type = "attachment"

\* the entries below a list of entries in the order of a depth-first walk: an
\* entry, then what is below it, then the entries after it
RECURSIVE Preorder(_, _)
Preorder(h, log) ==
    IF log = <<>> THEN <<>>
    ELSE <<Head(log)>>
         \o (IF h[Head(log)].type = "step" THEN Preorder(h, h[Head(log)].children) ELSE <<>>)
         \o Preorder(h, Tail(log))

\* the failing entries of the tree (assertions and steps whose passed is false),
\* in depth-first order
FailingEntries ==
    SelectSeq(Preorder(heap, root_list),
              LAMBDA d : heap[d].type \in {"assert", "step"} /\ ~heap[d].passed)

\* C21: when the call report is reclassified, its longrepr is the header line
\* "One or more assertions failed." followed by exactly one line per failing
\* entry of the tree, in depth-first order, each naming the label of the failing
\* assertion or the message of the failing step; a tree whose only failing entry
\* is one top-level assertion gives the header and one line with that label.
C21_SummaryListsFailingEntries ==
    (CallJustReported /\ CorrectedCall.softfailed)
        => LET lines == CorrectedCall.longrepr.lines IN
            /\ CorrectedCall.longrepr.kind = "summary"
            /\ Len(lines) = 1 + Len(FailingEntries)
            /\ lines[1] = "One or more assertions failed."
            /\ \A i \in 1..Len(FailingEntries) :
                  LET e == heap[FailingEntries[i]] IN
                    /\ lines[i + 1].of = e.type
                    /\ lines[i + 1].text = (IF e.type = "assert" THEN e.label ELSE e.message)
            /\ (Len(FailingEntries) = 1 /\ \E i \in 1..Len(root_list) :
                                              root_list[i] = FailingEntries[1]
                                              /\ heap[root_list[i]].type = "assert")
                  => /\ Len(lines) = 2
                     /\ lines[2].text = heap[FailingEntries[1]].label

\* the call report of an unmarked item was reclassified to failed: step B failed
\* over assertion y, then assertion x failed at the top level, after a passing
\* assertion; the summary is the header, B, y, x
C21_Witness ==
    /\ CallJustReported /\ CorrectedCall.softfailed /\ CorrectedCall.outcome = "failed"
    /\ Len(heap) = 4 /\ root_list = <<1, 2, 4>>
    /\ heap[1].type = "assert" /\ heap[1].passed
    /\ heap[2].type = "step" /\ heap[2].message = "B" /\ heap[2].children = <<3>>
    /\ heap[3].type = "assert" /\ heap[3].label = "y" /\ ~heap[3].passed
    /\ heap[4].type = "assert" /\ heap[4].label = "x" /\ ~heap[4].passed
    /\ Len(CorrectedCall.longrepr.lines) = 4
    /\ CorrectedCall.longrepr.lines[2].text = "B"
    /\ CorrectedCall.longrepr.lines[3].text = "y"
    /\ CorrectedCall.longrepr.lines[4].text = "x"

\* the same with a single failing assertion at the top level
C21_WitnessSingle ==
    /\ CallJustReported /\ CorrectedCall.softfailed
    /\ Len(FailingEntries) = 1 /\ root_list = <<1>> /\ heap[1].label = "y"

\* the entries there were when the latest finished item ended
EndOfLastItem == IF finished = <<>> THEN 0 ELSE finished[Len(finished)].upto

\* the tree of every finished item holds the entries recorded between the end
\* of the item before it and its own end, and the tree of the running item (an
\* empty one between two items) holds every entry recorded since
TreesHoldTheirOwnEntries ==
    /\ \A k \in 1..Len(finished) :
          Descendants(heap, finished[k].root)
             = ((IF k = 1 THEN 0 ELSE finished[k - 1].upto) + 1)..finished[k].upto
    /\ Descendants(heap, root_list) = (EndOfLastItem + 1)..Len(heap)

\* C22: pytest_runtest_setup gives the item a fresh context (an empty root_list,
\* a stack holding root_list alone, both context variables set), and
\* pytest_runtest_teardown detaches it (both variables back to None).  While
\* the context is detached, after one item ended and before the next begins, no
\* call adds an entry to any tree; the tree of an item holds no entry recorded
\* during an earlier item.
C22_FreshContextPerExecution ==
    [][/\ last'.op = "pytest_runtest_setup"
            => /\ root_list' = <<>> /\ stack' = <<0>>
               /\ CURRENT_EXECUTION_LOG' = "root_list"
               /\ CURRENT_LOG_CONTAINER_STACK' = "stack"
       /\ (last'.op = "pytest_runtest_teardown" /\ tokens)
            => /\ CURRENT_EXECUTION_LOG' = "None"
               /\ CURRENT_LOG_CONTAINER_STACK' = "None"
       /\ pc' \in {"finalizers", "reported", "idle"}
            => /\ CURRENT_EXECUTION_LOG' = "None"
               /\ CURRENT_LOG_CONTAINER_STACK' = "None"
       /\ pc \in {"finalizers", "reported", "idle"}
            => /\ Len(heap') = Len(heap)
               /\ \A n \in 1..Len(heap) :
                     heap[n].type = "step" => heap'[n].children = heap[n].children
               /\ finished' \in {finished, Append(finished, [root |-> root_list,
                                                              upto |-> Len(heap)])}
               /\ root_list' \in {root_list, <<>>}
       /\ TreesHoldTheirOwnEntries']_vars

\* two items have ended, each with a step over a failing assertion in its
\* tree; after the second, with no context, a soft assertion was made inside a
\* no-op step and recorded nothing
C22_Witness ==
    /\ finished = <<[root |-> <<1>>, upto |-> 2], [root |-> <<3>>, upto |-> 4]>>
    /\ heap[1].type = "step" /\ heap[1].children = <<2>>
    /\ heap[3].type = "step" /\ heap[3].children = <<4>>
    /\ Len(heap) = 4 /\ pc = "idle" /\ root_list = <<>>
    /\ last.op = "soft_assert" /\ last.entry = 0
    /\ Len(scopes) = 1 /\ scopes[1].node = 0

\* C23: the call report carries the recorded tree whatever the outcome.  For
\* every call report the hookwrapper leaves (passed, failed by an exception of
\* the body, skipped, xfailed), execution_log is root_list with every entry the
\* item recorded below it, and user_properties names it.
C23_LogOnEveryCallReport ==
    CallJustReported
        => /\ CorrectedCall.has_execution_log
           /\ CorrectedCall.execution_log = root_list
           /\ Descendants(heap, CorrectedCall.execution_log) = 1..Len(heap)
           /\ CorrectedCall.user_properties = <<"execution_log">>

\* the body recorded a failing and a passing soft assertion inside a step, then
\* raised: the report is failed with the runner's own longrepr and carries the
\* three entries
C23_Witness ==
    /\ CallJustReported /\ RawCall.excinfo = "error" /\ CorrectedCall.outcome = "failed"
    /\ ~CorrectedCall.softfailed
    /\ CorrectedCall.execution_log = <<1>> /\ Len(heap) = 3
    /\ heap[1].type = "step" /\ heap[1].children = <<2, 3>> /\ ~heap[1].passed
    /\ heap[2].type = "assert" /\ ~heap[2].passed
    /\ heap[3].type = "assert" /\ heap[3].passed

\* the default budget of 1024 bytes in the scale of the model, whose payloads
\* are shorter than, as long as and one byte longer than it
DefaultBudget == ATTACH_LIMIT_BYTES

C24_RecordedWhole ==
    /\ cfg_ATTACH_LIMIT_BYTES = <<>>
    /\ last.op = "attach" /\ last.entry # 0
    /\ last.data = [kind |-> "str", size |-> DefaultBudget + 1]
    /\ heap[last.entry].label = <<last.label>>
    /\ heap[last.entry].data.size = DefaultBudget + 1

\* the open blocks that pushed a container
ActiveScopes == SelectSeq(scopes, LAMBDA s : s.node # 0)

Occurrences(log, id) == Len(SelectSeq(log, LAMBDA x : x = id))

\* every entry lies in one container, once, and below no entry made after it
\* (so no list holds an entry twice and no entry lies below itself)
OneParentEach ==
    \A id \in 1..Len(heap) :
        /\ Cardinality({c \in Containers :
                           Occurrences(ContainerItems(heap, root_list, c), id) > 0}) = 1
        /\ \A c \in Containers :
              /\ Occurrences(ContainerItems(heap, root_list, c), id) <= 1
              /\ Occurrences(ContainerItems(heap, root_list, c), id) = 1 => c < id

\* C26: the tree only grows at the ends of its lists.  Every step of an item
\* leaves each list of entries as it was or with one new entry after its last;
\* at most one entry is made per step, by step, soft_assert or attach, and it
\* goes to one list; no entry ever changes but for the passed flag and the
\* children of a step; every entry lies in exactly one list, once, and no
\* entry lies below itself.
C26_TreeIsAppendOnly ==
    [][last'.op # "none"
         => /\ Len(heap') \in {Len(heap), Len(heap) + 1}
            /\ Len(heap') = Len(heap) + 1
                  => /\ last'.op \in {"step_enter", "soft_assert", "attach"}
                     /\ Cardinality({c \in Containers :
                            ContainerItems(heap', root_list', c)
                               = Append(ContainerItems(heap, root_list, c), Len(heap'))}) = 1
            /\ last'.op # "pytest_runtest_setup"
                  => \A c \in Containers :
                        \/ ContainerItems(heap', root_list', c) = ContainerItems(heap, root_list, c)
                        \/ /\ Len(heap') = Len(heap) + 1
                           /\ ContainerItems(heap', root_list', c)
                                 = Append(ContainerItems(heap, root_list, c), Len(heap'))
            /\ \A n \in 1..Len(heap) :
                  IF heap[n].type = "step"
                      THEN heap' [n] = [heap[n] EXCEPT !.passed = heap'[n].passed,
                                                      !.children = heap'[n].children]
                      ELSE heap'[n] = heap[n]
            /\ OneParentEach']_vars

\* A was closed before B, opened inside it; what the body recorded next went to
\* the end of A's list, behind B
C26_Witness ==
    /\ pc = "call" /\ Len(heap) = 4 /\ root_list = <<1>>
    /\ heap[1].type = "step" /\ heap[1].children = <<2, 3, 4>> /\ 1 \notin OpenNodes
    /\ heap[2].type = "step" /\ heap[2].children = <<>> /\ 2 \in OpenNodes
    /\ heap[3].type = "assert" /\ heap[4].type = "attachment"

\* dicts and lists that json.dumps cannot serialize: a value of a type it does
\* not know (TypeError), a reference to the container itself (ValueError)
UnserializableKinds == {"dict_typeerror", "dict_circular"}

\* C27: when attach is given a dict or list whose serialization fails, for
\* whatever reason, the entry it records is a text attachment, not a json one,
\* and its body is a textual representation of the data (its repr).
C27_SerializationFailureGivesRepr ==
    (last.op = "attach" /\ last.entry # 0 /\ last.data.kind \in UnserializableKinds)
        => /\ heap[last.entry].type = "attachment"
           /\ heap[last.entry].content_type = "text"
           /\ heap[last.entry].data.form = "repr"

\* a dict json.dumps raises TypeError for was recorded as text, by its repr
C27_TypeErrorGivesRepr ==
    /\ last.op = "attach" /\ last.entry # 0 /\ last.data.kind = "dict_typeerror"
    /\ heap[last.entry].content_type = "text"
    /\ heap[last.entry].data.form = "repr"

\* a dict that holds itself was recorded as text, by the description of the
\* error and not by its repr
C27_CircularGivesErrorText ==
    /\ last.op = "attach" /\ last.entry # 0 /\ last.data.kind = "dict_circular"
    /\ heap[last.entry].content_type = "text"
    /\ heap[last.entry].data.form = "ERROR while attaching data"

\* a report the hookwrapper left as the runner made it: same outcome, not
\* marked as soft-failed, no generated summary
NotReclassified(r) ==
    r # NoReport
        => /\ r.rep.outcome = r.raw.outcome
           /\ ~r.rep.softfailed /\ ~r.rep.soft_assert_only
           /\ r.rep.longrepr.kind # "summary" /\ r.rep.longrepr.lines = <<>>

\* C28: reclassification touches the call report only, so at most one report
\* of an item.  The setup report and the teardown report leave the hookwrapper
\* with the runner's outcome and without a summary, whatever the tree holds
\* when they are made; a reclassified report is a call report.
C28_OnlyCallReportReclassified ==
    /\ NotReclassified(reports.setup)
    /\ NotReclassified(reports.teardown)
    /\ reports.call # NoReport
          => (reports.call.rep.softfailed => reports.call.rep.when = "call")
    /\ Cardinality({w \in {"setup", "call", "teardown"} :
                       reports[w] # NoReport /\ reports[w].rep.softfailed}) <= 1

\* a fixture recorded a failing soft assertion before the setup report was
\* made: the setup report carries it and stays passed, the call report was
\* reclassified to failed, the teardown report is passed
C28_Witness ==
    /\ pc = "reported"
    /\ reports.setup.rep.execution_log = <<1>>
    /\ heap[1].type = "assert" /\ ~heap[1].passed
    /\ reports.setup.rep.outcome = "passed"
    /\ reports.call.rep.softfailed /\ reports.call.rep.outcome = "failed"
    /\ reports.teardown.rep.outcome = "passed"

\* C29: an item marked xfail whose body ends without an exception (the
\* runner's call report is passed and carries wasxfail: an unexpected pass) and
\* whose tree holds a failing soft assertion leaves the hookwrapper skipped,
\* with the generated summary; it never leaves it failed.
C29_XfailSoftFailureIsSkipped ==
    (CallJustReported /\ RawVerdict = "UnexpectedPass" /\ RawCall.excinfo = "none"
     /\ RootHasFailures)
        => /\ CorrectedCall.outcome = "skipped"
           /\ CorrectedCall.longrepr.kind = "summary"

\* xfail with a reason: the report is skipped and carries the summary
C29_ReasonGivesSkipped ==
    /\ CallJustReported /\ RawVerdict = "UnexpectedPass" /\ RootHasFailures
    /\ RawCall.wasxfail = "reason"
    /\ CorrectedCall.outcome = "skipped" /\ CorrectedCall.longrepr.kind = "summary"

\* xfail without a reason: wasxfail is the empty string and the report is failed
C29_NoReasonGivesFailed ==
    /\ CallJustReported /\ RawVerdict = "UnexpectedPass" /\ RootHasFailures
    /\ RawCall.wasxfail = ""
    /\ CorrectedCall.outcome = "failed" /\ CorrectedCall.softfailed

\* no assertion and no step below the list is failed
NoFailureBelow(log) ==
    \A d \in Descendants(heap, log) : heap[d].type \in {"assert", "step"} => heap[d].passed

\* C30: an exception alone fails no step.  A step that closes while an
\* exception of the body passes through it, and below which no assertion and
\* no step is failed, closes with passed true; as long as no soft assertion of
\* the item failed, has_failures_in_log of root_list is false however the body
\* ended.
C30_ExceptionAloneFailsNoStep ==
    /\ (last.op = "step_exit" /\ last.entry # 0 /\ exc # "none"
         /\ NoFailureBelow(heap[last.entry].children))
            => heap[last.entry].passed
    /\ (\A a \in 1..Len(heap) : heap[a].type = "assert" => heap[a].passed)
            => /\ ~RootHasFailures
               /\ \A n \in 1..Len(heap) : heap[n].type = "step" => heap[n].passed

\* the body raised inside step B, inside step A, after a passing assertion in
\* B; both have closed with passed true and the call report is failed by the
\* runner, not reclassified
C30_Witness ==
    /\ CallJustReported /\ RawCall.excinfo = "error" /\ CorrectedCall.outcome = "failed"
    /\ ~CorrectedCall.softfailed /\ ~RootHasFailures
    /\ Len(heap) = 3 /\ root_list = <<1>>
    /\ heap[1].type = "step" /\ heap[1].children = <<2>> /\ heap[1].passed
    /\ heap[2].type = "step" /\ heap[2].children = <<3>> /\ heap[2].passed
    /\ heap[3].type = "assert" /\ heap[3].passed

\* the containers of the open blocks that pushed one, outermost first
ActiveNodes == [i \in 1..Len(ActiveScopes) |-> ActiveScopes[i].node]

\* the stack is root_list and the containers of the open blocks, outermost first
StackMatchesOpenBlocks == stack = <<0>> \o ActiveNodes

\* no step that has closed gets a new child
ClosedStepsKeepTheirChildren ==
    \A n \in 1..Len(heap) :
        (heap[n].type = "step" /\ n \notin OpenNodes)
            => heap'[n].children = heap[n].children

\* C31 as stated: in whatever order the open blocks close, a close takes off the
\* stack the container its own enter pushed and no other, and once a step has
\* closed no entry is appended to its children.
C31_CloseRemovesOwnContainerAnyOrder ==
    [][last'.op # "none"
         => /\ (last'.op = "step_exit" /\ last'.entry # 0)
                  => /\ Len(stack') = Len(stack) - 1
                     /\ stack' = SelectSeq(stack, LAMBDA c : c # last'.entry)
            /\ ClosedStepsKeepTheirChildren]_vars

\* C31 amended: as long as the blocks close innermost first, as with-blocks
\* do, a close takes off the stack the container its own enter pushed, which
\* is on top, and no other; the stack then still matches the open blocks, and
\* no entry is appended to the children of a step that has closed.
C31_CloseRemovesOwnContainerLifo ==
    [][(last'.op # "none" /\ tokens /\ StackMatchesOpenBlocks)
         => /\ (last'.op = "step_exit" /\ last'.entry # 0
                 /\ last'.entry = Top(ActiveNodes))
                  => /\ Top(stack) = last'.entry
                     /\ Len(stack') = Len(stack) - 1
                     /\ stack' = SelectSeq(stack, LAMBDA c : c # last'.entry)
                     /\ StackMatchesOpenBlocks'
            /\ ClosedStepsKeepTheirChildren]_vars

\* A, B, C were opened inside one another and C closed first; the assertion
\* recorded next lies in B, behind C, and C has no child
C31_Witness ==
    /\ pc = "call" /\ Len(heap) = 4 /\ root_list = <<1>>
    /\ heap[1].type = "step" /\ heap[1].children = <<2>>
    /\ heap[2].type = "step" /\ heap[2].children = <<3, 4>>
    /\ heap[3].type = "step" /\ heap[3].children = <<>>
    /\ heap[4].type = "assert"
    /\ ActiveNodes = <<1, 2>> /\ stack = <<0, 1, 2>>
    /\ last.op = "soft_assert"

\* A was closed while B, opened inside it, stayed open: the close took B's
\* container off the stack and left A's on top
C31_OuterClosedFirst ==
    /\ pc = "call" /\ last.op = "step_exit" /\ last.entry = 1
    /\ heap[1].type = "step" /\ heap[1].children = <<2>>
    /\ heap[2].type = "step"
    /\ ActiveNodes = <<2>> /\ stack = <<0, 1>>

\* C32: with an active context, a call of soft_assert or attach makes one
\* entry, appends it to the container on top of the stack, and changes nothing
\* else: the stack and the open blocks, every other container, every entry
\* there was (the passed flag of every step included), the context, the
\* reports, the phase and the exception state of the caller.
C32_RecordersAppendOneEntry ==
    [][(last'.op \in {"soft_assert", "attach"} /\ CURRENT_LOG_CONTAINER_STACK = "stack")
         => LET id == Len(heap) + 1
                c == Top(stack)
            IN /\ Len(heap') = id /\ last'.entry = id
               /\ heap'[id].type = (IF last'.op = "soft_assert" THEN "assert"
                                                                ELSE "attachment")
               /\ ContainerItems(heap', root_list', c)
                     = Append(ContainerItems(heap, root_list, c), id)
               /\ \A d \in Containers \ {c} :
                     ContainerItems(heap', root_list', d) = ContainerItems(heap, root_list, d)
               /\ \A n \in 1..Len(heap) :
                     heap'[n] = IF n = c THEN [heap[n] EXCEPT !.children = Append(@, id)]
                                         ELSE heap[n]
               /\ UNCHANGED <<stack, scopes, CURRENT_EXECUTION_LOG,
                              CURRENT_LOG_CONTAINER_STACK, tokens, pc, exc, reports>>]_vars

\* inside the open step A, after its inner step B closed failed over a failing
\* assertion, an attachment was recorded: it is A's second child, B is as it was
C32_Witness ==
    /\ pc = "call" /\ exc = "none"
    /\ last.op = "attach" /\ last.entry = 4 /\ Len(heap) = 4
    /\ root_list = <<1>> /\ stack = <<0, 1>>
    /\ heap[1].type = "step" /\ heap[1].children = <<2, 4>> /\ heap[1].passed
    /\ heap[2].type = "step" /\ heap[2].children = <<3>> /\ ~heap[2].passed
    /\ heap[3].type = "assert" /\ ~heap[3].passed
    /\ heap[4].type = "attachment"
====
